---- MODULE Spec2Model ----
(***************************************************************************)
(* Model of src/main.ts of the tray weather utility: the settings record   *)
(* and its persisted file, the module-level runtime fields derived from    *)
(* it, location initialisation, the weather fetch, the bounded API error   *)
(* history and the update timer.                                           *)
(*                                                                         *)
(* JavaScript values: null and undefined (an absent key) are sentinels,    *)
(* NullStr/UndefStr for strings and NullNum/UndefNum for numbers.          *)
(* Coordinates and temperatures are integers standing for the decimals;    *)
(* a number that is not an integer is Tenths(t), standing for t/10.        *)
(***************************************************************************)
EXTENDS Integers, Sequences, FiniteSets, TLC

\* ---------------------------------------------------------------- bounds
MaxApplies == 2      \* applySettings invocations started in one behaviour
MaxFetches == 3      \* weather fetches issued in one behaviour
MaxFailures == 2     \* remote calls that fail in one behaviour
MaxLogRun  == 22     \* failures recorded in one behaviour of SpecLog
MaxVaried  == 2      \* of which the first fail in any of the ways a fetch can
MaxResults == 3      \* candidates in one geocoding response of SpecPick

\* ------------------------------------------------------ JavaScript values
NullStr  == "<null>"
UndefStr == "<undefined>"
NullNum  == -1000
UndefNum == -1001
NaNNum   == -1002

\* numbers that are not integers: FractionBase + t stands for t/10
FractionBase == 100000
Tenths(t) == FractionBase + t
\* x < k for a number x and an integer k
LessThan(x, k) == IF x >= FractionBase THEN x - FractionBase < 10 * k ELSE x < k

\* x ?? d on numbers
Coalesce(x, d) == IF x = NullNum \/ x = UndefNum THEN d ELSE x
\* truthiness of a string | null | undefined
TruthyStr(s) == s # NullStr /\ s # UndefStr /\ s # ""
\* String.prototype.trim on the strings of the model
Trim(s) == IF s = " " THEN "" ELSE s
\* String.prototype.toLowerCase on the strings of the model
ToLowerCase(s) == IF s \in {"Moscow", "MOSCOW"} THEN "moscow" ELSE s

\* --------------------------------------------------------------- settings
MAX_ERRORS == 20

defaultSettings ==
  [city |-> "New York City", country |-> "United States",
   latitude |-> NullNum, longitude |-> NullNum, updateIntervalInSeconds |-> 60]

\* an object with none of the five keys
EmptyObject ==
  [city |-> UndefStr, country |-> UndefStr,
   latitude |-> UndefNum, longitude |-> UndefNum, updateIntervalInSeconds |-> UndefNum]

\* { ...a, ...b }: a key present in b (null included) overrides a
Merge(a, b) ==
  [city      |-> IF b.city = UndefStr THEN a.city ELSE b.city,
   country   |-> IF b.country = UndefStr THEN a.country ELSE b.country,
   latitude  |-> IF b.latitude = UndefNum THEN a.latitude ELSE b.latitude,
   longitude |-> IF b.longitude = UndefNum THEN a.longitude ELSE b.longitude,
   updateIntervalInSeconds |->
      IF b.updateIntervalInSeconds = UndefNum THEN a.updateIntervalInSeconds
      ELSE b.updateIntervalInSeconds]

\* the settings.json file: missing, unparseable text, or the text of an object
FileAbsent  == [kind |-> "absent"]
FileCorrupt == [kind |-> "corrupt"]
\* JSON.stringify(obj, null, 2): undefined keys are dropped, which the
\* representation of an absent key already is
JsonStringify(obj) == [kind |-> "json", value |-> obj]
\* JSON.parse: throws on unparseable text
JsonParseThrows(f) == f.kind # "json"
JsonParse(f) == f.value

\* ------------------------------------------------------------------- URLs
EmptyUrl == [kind |-> "empty"]
NoUrl    == [kind |-> "none"]
ForecastUrl(lat, lon) == [kind |-> "forecast", latitude |-> lat, longitude |-> lon]
GeocodeUrl(city, country) == [kind |-> "geocode", name |-> city, country |-> country]

\* ------------------------------------------------------ environment inputs
\* contents of settings.json found at startup
InitialFiles ==
  { FileAbsent, FileCorrupt,
    JsonStringify([EmptyObject EXCEPT !.latitude = 55, !.longitude = 37]),
    JsonStringify([EmptyObject EXCEPT !.latitude = 55, !.longitude = 37,
                                      !.updateIntervalInSeconds = 0]),
    JsonStringify(EmptyObject) }

\* candidates sent by the settings window (or any caller of the handler)
Candidates ==
  { [city |-> "Nowhere", country |-> "Nowhere", latitude |-> NullNum,
     longitude |-> NullNum, updateIntervalInSeconds |-> 60],
    [EmptyObject EXCEPT !.latitude = 55, !.longitude = 37],
    [city |-> NullStr, country |-> NullStr, latitude |-> 10,
     longitude |-> 20, updateIntervalInSeconds |-> 30],
    [EmptyObject EXCEPT !.updateIntervalInSeconds = 0],
    [city |-> NullStr, country |-> NullStr, latitude |-> NullNum,
     longitude |-> NullNum, updateIntervalInSeconds |-> 60] }

\* geocoding results
GeoMoscow == [name |-> "Moscow", country |-> "Russia", latitude |-> 55, longitude |-> 37]
GeoOblast == [name |-> "Moscow Oblast", country |-> "Russia", latitude |-> 56, longitude |-> 38]

\* what the geocoding request can come back with
GeoResponses ==
  { [kind |-> "http", status |-> 500],
    [kind |-> "transport", code |-> "ENOTFOUND"],
    [kind |-> "ok", results |-> << >>],
    [kind |-> "ok", results |-> <<GeoOblast, GeoMoscow>>] }

\* what the forecast request can come back with
WeatherResponses ==
  { [kind |-> "http", status |-> 500],
    [kind |-> "transport", code |-> UndefStr],
    [kind |-> "ok", temperature |-> UndefNum, weathercode |-> 3],
    [kind |-> "ok", temperature |-> 7, weathercode |-> 3],
    [kind |-> "ok", temperature |-> 7, weathercode |-> UndefNum] }

\* outcome of fs.writeFileSync
WriteOutcomes == {"ok", "throws"}

VARIABLES
  file,                     \* contents of settings.json
  settings,                 \* let settings
  CITY, COUNTRY, LATITUDE, LONGITUDE,
  UPDATE_INTERVAL_SECONDS,
  WEATHER_URL,
  cityName, countryName,
  tray,                     \* tray and weatherTray exist (created and destroyed together)
  updateInterval,           \* handle of the timer held by the module, 0 for null
  timers,                   \* timers armed in the event loop: [id, seconds]
  lastUpdateTime,
  shown,                    \* what the tray shows: [temp, weathercode, menu]
  apiErrors,
  phase,                    \* "boot", "loaded", "resolving", "running", "quit", "crashed"
  applies,                  \* applySettings invocations awaiting geocoding
  fetches,                  \* updateTrayTemperature invocations awaiting the forecast
  rejections,               \* promises of updateTrayTemperature that rejected unhandled
  nApply, nFetch, nTimer, nErr,
  last                      \* history: the step just taken

vars == << file, settings, CITY, COUNTRY, LATITUDE, LONGITUDE, UPDATE_INTERVAL_SECONDS,
           WEATHER_URL, cityName, countryName, tray, updateInterval, timers,
           lastUpdateTime, shown, apiErrors, phase, applies, fetches, rejections,
           nApply, nFetch, nTimer, nErr, last >>

settingsVars == << settings, CITY, COUNTRY, LATITUDE, LONGITUDE, UPDATE_INTERVAL_SECONDS,
                   WEATHER_URL, cityName, countryName >>
timerVars   == << updateInterval, timers, nTimer >>
weatherVars == << lastUpdateTime, shown >>

\* the in-memory settings and the runtime fields derived from them
Mem ==
  [settings |-> settings, CITY |-> CITY, COUNTRY |-> COUNTRY,
   LATITUDE |-> LATITUDE, LONGITUDE |-> LONGITUDE,
   UPDATE_INTERVAL_SECONDS |-> UPDATE_INTERVAL_SECONDS,
   WEATHER_URL |-> WEATHER_URL, cityName |-> cityName, countryName |-> countryName]

\* ------------------------------------------------------------ error history
\* extractErrorDetails: the code property of the error and the status its
\* message names ("HTTP error <n>"), when there are any; err.status stands for
\* the number in the message
extractErrorDetails(err) ==
  [message    |-> err.message,
   errorCode  |-> err.code,
   statusCode |-> err.status]

\* the record addApiError builds; info is the additionalInfo argument
ApiErrorRecord(stamp, api, err, url, info) ==
  LET errorDetails == extractErrorDetails(err) IN
  [timestamp  |-> stamp,
   api        |-> api,
   error      |-> errorDetails.message,
   url        |-> url,
   statusCode |-> IF info.statusCode # UndefNum /\ info.statusCode # 0
                  THEN info.statusCode ELSE errorDetails.statusCode,
   errorCode  |-> IF TruthyStr(info.errorCode)
                  THEN info.errorCode ELSE errorDetails.errorCode]

\* mutant of Push: the record is put in front of the history
PushInFront(log, rec) ==
  LET pushed == <<rec>> \o log IN
  IF Len(pushed) > MAX_ERRORS THEN SubSeq(pushed, 1, MAX_ERRORS) ELSE pushed

\* mutant of Push: the newest record is dropped when the history is full
PushDropsNewest(log, rec) ==
  IF Len(log) >= MAX_ERRORS THEN log ELSE Append(log, rec)

\* apiErrors.push(apiError); if (apiErrors.length > MAX_ERRORS) apiErrors.shift()
Push(log, rec) ==
  LET pushed == Append(log, rec) IN
  IF Len(pushed) > MAX_ERRORS THEN Tail(pushed) ELSE pushed

addApiError(log, stamp, api, err, url, info) ==
  Push(log, ApiErrorRecord(stamp, api, err, url, info))

NoInfo == [statusCode |-> UndefNum, errorCode |-> UndefStr]
HttpError(status) == [message |-> "HTTP error", status |-> status, code |-> UndefStr]
ThrownError(resp) == [message |-> "fetch failed", status |-> UndefNum, code |-> resp.code]
PlainError(msg)   == [message |-> msg, status |-> UndefNum, code |-> UndefStr]

\* ------------------------------------------------------------- loadSettings
\* the value loadSettings returns for the file f
LoadedSettings(f) ==
  IF f.kind = "absent" THEN defaultSettings
  ELSE IF JsonParseThrows(f) THEN defaultSettings
  ELSE LET parsed == JsonParse(f) IN
       IF parsed.updateIntervalInSeconds = UndefNum \/ parsed.updateIntervalInSeconds = NullNum
       THEN [parsed EXCEPT !.updateIntervalInSeconds = 60]
       ELSE parsed

\* mutants of FileAfterLoad: one that never writes, one that always does
FileAfterLoadNeverWrites(f) == f
FileAfterLoadAlwaysWrites(f) ==
  IF f.kind = "absent" \/ JsonParseThrows(f) THEN JsonStringify(defaultSettings) ELSE f

\* the file loadSettings leaves behind: written only when it did not exist
FileAfterLoad(f) ==
  IF f.kind = "absent" THEN JsonStringify(defaultSettings) ELSE f

\* what the tray shows before the first update: the base icons
BaseShown == [temp |-> UndefNum, weathercode |-> 0, time |-> NullNum]

Init ==
  /\ file \in InitialFiles
  /\ settings = EmptyObject
  /\ CITY = UndefStr /\ COUNTRY = UndefStr
  /\ LATITUDE = NullNum /\ LONGITUDE = NullNum
  /\ UPDATE_INTERVAL_SECONDS = 60
  /\ WEATHER_URL = EmptyUrl
  /\ cityName = "" /\ countryName = ""
  /\ tray = FALSE
  /\ updateInterval = 0
  /\ timers = {}
  /\ lastUpdateTime = NullNum
  /\ shown = BaseShown
  /\ apiErrors = << >>
  /\ phase = "boot"
  /\ applies = {}
  /\ fetches = {}
  /\ rejections = 0
  /\ nApply = 0 /\ nFetch = 0 /\ nTimer = 0 /\ nErr = 0
  /\ last = [op |-> "init"]

\* module initialisation: let settings = loadSettings() and the fields read from it
LoadSettings ==
  /\ phase = "boot"
  /\ \E w \in WriteOutcomes :
       IF file.kind = "absent" /\ w = "throws"
       THEN \* fs.writeFileSync throws outside any try: the module fails to load
            /\ phase' = "crashed"
            /\ last' = [op |-> "loadThrew"]
            /\ UNCHANGED << file, settingsVars >>
       ELSE LET loaded == LoadedSettings(file) IN
            /\ settings' = loaded
            /\ file' = FileAfterLoad(file)
            /\ CITY' = loaded.city
            /\ COUNTRY' = loaded.country
            /\ LATITUDE' = Coalesce(loaded.latitude, NullNum)
            /\ LONGITUDE' = Coalesce(loaded.longitude, NullNum)
            /\ UPDATE_INTERVAL_SECONDS' = Coalesce(loaded.updateIntervalInSeconds, 60)
            /\ UNCHANGED << WEATHER_URL, cityName, countryName >>
            /\ phase' = "loaded"
            /\ last' = [op |-> "load", from |-> file.kind]
  /\ UNCHANGED << tray, timerVars, weatherVars, apiErrors, applies, fetches,
                  rejections, nApply, nFetch, nErr >>

\* ------------------------------------------------------ location resolution
\* mutant of ByName: the names are looked up although the coordinates are given
ByNameWheneverNamed(lat, lon, city, country) == TruthyStr(city) /\ TruthyStr(country)

\* the first branch of initializeLocation: coordinates are looked up by name
ByName(lat, lon, city, country) ==
  (lat = NullNum \/ lon = NullNum) /\ TruthyStr(city) /\ TruthyStr(country)
\* mutant of ByCoordinates: the branch is taken whatever the coordinates are
ByCoordinatesAlways(lat, lon) == TRUE

\* its second branch: the coordinates are given
ByCoordinates(lat, lon) == lat # NullNum /\ lon # NullNum

\* data.results.find(loc => loc.name && loc.name.toLowerCase() === cityLower)
RECURSIVE Find(_, _)
Find(results, cityLower) ==
  IF results = << >> THEN [found |-> FALSE]
  ELSE IF TruthyStr(Head(results).name) /\ ToLowerCase(Head(results).name) = cityLower
       THEN [found |-> TRUE, loc |-> Head(results)]
       ELSE Find(Tail(results), cityLower)

\* mutant of PickLocation: the first result is taken whatever its name
PickLocationFirst(results, city, country) ==
  LET location == results[1]
  IN [latitude    |-> location.latitude,
      longitude   |-> location.longitude,
      cityName    |-> IF TruthyStr(location.name) THEN location.name ELSE city,
      countryName |-> IF TruthyStr(location.country) THEN location.country ELSE country]

\* the location fetchCoordinatesByCity returns for a non-empty result list
PickLocation(results, city, country) ==
  LET exactMatch == Find(results, ToLowerCase(city))
      location   == IF exactMatch.found THEN exactMatch.loc ELSE results[1]
  IN [latitude    |-> location.latitude,
      longitude   |-> location.longitude,
      cityName    |-> IF TruthyStr(location.name) THEN location.name ELSE city,
      countryName |-> IF TruthyStr(location.country) THEN location.country ELSE country]

\* fetchCoordinatesByCity returns a location (rather than null) for resp
GeoFound(resp) == resp.kind = "ok" /\ Len(resp.results) > 0

\* the error history after fetchCoordinatesByCity(city, country) got resp
LogAfterGeocode(log, stamp, resp, city, country) ==
  IF resp.kind = "http"
  THEN addApiError(log, stamp, "Geocoding API", HttpError(resp.status),
                   GeocodeUrl(city, country),
                   [statusCode |-> resp.status, errorCode |-> UndefStr])
  ELSE IF resp.kind = "transport"
  THEN addApiError(log, stamp, "Geocoding API", ThrownError(resp),
                   GeocodeUrl(city, country),
                   IF TruthyStr(resp.code)
                   THEN [statusCode |-> UndefNum, errorCode |-> resp.code] ELSE NoInfo)
  ELSE log

\* mutant of InitLocationByName: the coordinates found are written into the
\* settings as well
InitLocationByNameIntoSettings(m, location) ==
  [m EXCEPT !.LATITUDE = location.latitude,
            !.LONGITUDE = location.longitude,
            !.cityName = location.cityName,
            !.countryName = location.countryName,
            !.WEATHER_URL = ForecastUrl(location.latitude, location.longitude),
            !.settings = [m.settings EXCEPT !.latitude = location.latitude,
                                            !.longitude = location.longitude]]

\* initializeLocation's effect on the runtime fields m when the lookup by name
\* returned location
InitLocationByName(m, location) ==
  [m EXCEPT !.LATITUDE = location.latitude,
            !.LONGITUDE = location.longitude,
            !.cityName = location.cityName,
            !.countryName = location.countryName,
            !.WEATHER_URL = ForecastUrl(location.latitude, location.longitude)]

\* mutant of InitLocationByCoordinates: WEATHER_URL is never built
InitLocationByCoordinatesNoUrl(m) == m

\* initializeLocation's effect on the runtime fields m when the coordinates
\* are given: WEATHER_URL is built only if it is still empty
InitLocationByCoordinates(m) ==
  [m EXCEPT !.WEATHER_URL = IF m.WEATHER_URL = EmptyUrl
                            THEN ForecastUrl(m.LATITUDE, m.LONGITUDE)
                            ELSE m.WEATHER_URL]

\* assignment of the in-memory settings and runtime fields
SetMem(m) ==
  /\ settings' = m.settings
  /\ CITY' = m.CITY
  /\ COUNTRY' = m.COUNTRY
  /\ LATITUDE' = m.LATITUDE
  /\ LONGITUDE' = m.LONGITUDE
  /\ UPDATE_INTERVAL_SECONDS' = m.UPDATE_INTERVAL_SECONDS
  /\ WEATHER_URL' = m.WEATHER_URL
  /\ cityName' = m.cityName
  /\ countryName' = m.countryName

\* ------------------------------------------------------------ weather fetch
\* mutant of WeatherData: a response without a weathercode is refused
WeatherDataNeedsCode(resp) ==
  IF resp.kind = "ok" /\ resp.temperature # UndefNum /\ resp.weathercode # UndefNum
  THEN [ok |-> TRUE, temperature |-> resp.temperature, weathercode |-> resp.weathercode]
  ELSE [ok |-> FALSE]

\* fetchWeatherData's result for resp: null is [ok |-> FALSE]
WeatherData(resp) ==
  IF resp.kind = "ok" /\ resp.temperature # UndefNum
  THEN [ok |-> TRUE, temperature |-> resp.temperature,
        weathercode |-> IF resp.weathercode # UndefNum THEN resp.weathercode ELSE 0]
  ELSE [ok |-> FALSE]

\* the error history after fetchWeatherData got resp; url is WEATHER_URL as
\* read when the error is recorded
LogAfterWeather(log, stamp, resp, url) ==
  IF resp.kind = "http"
  THEN addApiError(log, stamp, "Weather API", HttpError(resp.status), url,
                   [statusCode |-> resp.status, errorCode |-> UndefStr])
  ELSE IF resp.kind = "transport"
  THEN addApiError(log, stamp, "Weather API", ThrownError(resp), url,
                   IF TruthyStr(resp.code)
                   THEN [statusCode |-> UndefNum, errorCode |-> resp.code] ELSE NoInfo)
  ELSE IF ~WeatherData(resp).ok
  THEN addApiError(log, stamp, "Weather API", PlainError("no temperature"), url, NoInfo)
  ELSE log

\* what updateTrayTemperature puts on the tray icons, titles and menus
Rendered(data, time) ==
  [temp        |-> IF data.ok THEN data.temperature ELSE NullNum,
   weathercode |-> IF data.ok THEN data.weathercode ELSE 0,
   time        |-> time]

\* void updateTrayTemperature(), up to its await: hasTray and url are tray and
\* WEATHER_URL as the call finds them
CallUpdateTrayTemperature(hasTray, url) ==
  IF ~hasTray
  THEN UNCHANGED << fetches, nFetch, apiErrors, nErr, weatherVars >>
  ELSE IF url = EmptyUrl
  THEN \* fetchWeatherData returns null without a request
       /\ apiErrors' = addApiError(apiErrors, nErr + 1, "Weather API",
                                   PlainError("WEATHER_URL not initialised"), NoUrl, NoInfo)
       /\ nErr' = nErr + 1
       /\ shown' = Rendered([ok |-> FALSE], lastUpdateTime)
       /\ UNCHANGED << fetches, nFetch, lastUpdateTime >>
  ELSE /\ fetches' = fetches \cup {[id |-> nFetch + 1, url |-> url]}
       /\ nFetch' = nFetch + 1
       /\ UNCHANGED << apiErrors, nErr, weatherVars >>

\* new Date() when a fetch has succeeded: later than the time of the success
\* before it, the successes being numbered
Now(prev) == IF prev = NullNum THEN 1 ELSE prev + 1

\* the remote service may fail a call within MaxFailures
FailureBudget == nErr < MaxFailures

\* mutant of UpdatedTime: the time is set whatever the update got
UpdatedTimeAlways(data, prev) == Now(prev)

\* lastUpdateTime after an update got data: set only when it got a temperature
UpdatedTime(data, prev) == IF data.ok THEN Now(prev) ELSE prev

\* the forecast request of an updateTrayTemperature call completes with one of
\* the responses resps
FetchCompletes(resps) ==
  \E f \in fetches, resp \in resps :
    LET data == WeatherData(resp)
        time == UpdatedTime(data, lastUpdateTime)
    IN
    /\ fetches' = fetches \ {f}
    /\ apiErrors' = LogAfterWeather(apiErrors, nErr + 1, resp, WEATHER_URL)
    /\ nErr' = IF data.ok THEN nErr ELSE nErr + 1
    /\ lastUpdateTime' = time
    /\ IF tray
       THEN shown' = Rendered(data, time) /\ UNCHANGED rejections
       ELSE \* tray.setImage on null throws inside the async function
            UNCHANGED shown /\ rejections' = rejections + 1
    /\ last' = [op |-> "fetchDone", resp |-> resp, fetch |-> f.id]
    /\ UNCHANGED << file, settingsVars, tray, timerVars, phase, applies, nApply, nFetch >>

\* the responses the remote services may give within MaxFailures
WeatherWithinBudget ==
  {resp \in WeatherResponses : WeatherData(resp).ok \/ FailureBudget}
GeoWithinBudget ==
  {resp \in GeoResponses : resp.kind = "ok" \/ FailureBudget}

FetchDone == FetchCompletes(WeatherWithinBudget)

\* ------------------------------------------------------------------ startup
\* mutant of TrayCreated: the timer is armed without the immediate update
TrayCreatedNoFetch(url, seconds) ==
  /\ tray' = TRUE
  /\ updateInterval' = nTimer + 1
  /\ timers' = timers \cup {[id |-> nTimer + 1, seconds |-> seconds]}
  /\ nTimer' = nTimer + 1
  /\ phase' = "running"
  /\ UNCHANGED << fetches, nFetch, apiErrors, nErr, weatherVars >>

\* createTray after initializeLocation returned true
TrayCreated(url, seconds) ==
  /\ tray' = TRUE
  /\ CallUpdateTrayTemperature(TRUE, url)
  /\ updateInterval' = nTimer + 1
  /\ timers' = timers \cup {[id |-> nTimer + 1, seconds |-> seconds]}
  /\ nTimer' = nTimer + 1
  /\ phase' = "running"

\* mutant of QuitAtStartup: createTray returns without app.quit()
QuitAtStartupSkipped ==
  /\ phase' = "running"
  /\ UNCHANGED << tray, timerVars, weatherVars, fetches, nFetch >>

\* app.quit() from createTray; the before-quit handler finds nothing to release
QuitAtStartup ==
  /\ phase' = "quit"
  /\ UNCHANGED << tray, timerVars, weatherVars, fetches, nFetch >>

\* app.whenReady: createTray up to the first await that suspends
CreateTray ==
  /\ phase = "loaded"
  /\ IF ByName(LATITUDE, LONGITUDE, CITY, COUNTRY)
     THEN /\ phase' = "resolving"
          /\ last' = [op |-> "createTray", branch |-> "byName"]
          /\ UNCHANGED << WEATHER_URL, tray, timerVars, weatherVars, apiErrors,
                          fetches, nFetch, nErr >>
     ELSE IF ByCoordinates(LATITUDE, LONGITUDE)
     THEN /\ WEATHER_URL' = InitLocationByCoordinates(Mem).WEATHER_URL
          /\ TrayCreated(WEATHER_URL', UPDATE_INTERVAL_SECONDS)
          /\ last' = [op |-> "createTray", branch |-> "byCoordinates"]
     ELSE /\ apiErrors' = addApiError(apiErrors, nErr + 1, "Init",
                                      PlainError("no location"), NoUrl, NoInfo)
          /\ nErr' = nErr + 1
          /\ QuitAtStartup
          /\ last' = [op |-> "createTray", branch |-> "unspecified"]
          /\ UNCHANGED WEATHER_URL
  /\ UNCHANGED << file, settings, CITY, COUNTRY, LATITUDE, LONGITUDE,
                  UPDATE_INTERVAL_SECONDS, cityName, countryName, applies,
                  rejections, nApply >>

\* the geocoding request of createTray's initializeLocation completes
CreateTrayResolved ==
  /\ phase = "resolving"
  /\ \E resp \in GeoWithinBudget :
       /\ IF GeoFound(resp)
          THEN /\ SetMem(InitLocationByName(Mem, PickLocation(resp.results, CITY, COUNTRY)))
               /\ TrayCreated(WEATHER_URL', UPDATE_INTERVAL_SECONDS)
          ELSE /\ apiErrors' = LogAfterGeocode(apiErrors, nErr + 1, resp, CITY, COUNTRY)
               /\ nErr' = IF resp.kind = "ok" THEN nErr ELSE nErr + 1
               /\ QuitAtStartup
               /\ UNCHANGED settingsVars
       /\ last' = [op |-> "createTrayResolved", geo |-> resp.kind,
                   found |-> GeoFound(resp)]
  /\ UNCHANGED << file, applies, rejections, nApply >>

\* ------------------------------------------------------------ timer and menu
\* a fetch may still be issued within MaxFetches: every applySettings call in
\* flight keeps one for the update it makes when it succeeds
FetchBudget == nFetch + Cardinality(applies) < MaxFetches

\* an interval timer fires
TimerFires ==
  \E t \in timers :
    /\ CallUpdateTrayTemperature(tray, WEATHER_URL)
    /\ last' = [op |-> "tick"]
    /\ UNCHANGED << file, settingsVars, tray, timerVars, phase, applies,
                    rejections, nApply >>

Tick == FetchBudget /\ TimerFires

\* a menu has been built once an update has rendered
MenuBuilt == shown # BaseShown

\* the menu item that calls updateTrayTemperature
RefreshNow ==
  /\ phase = "running"
  /\ MenuBuilt
  /\ FetchBudget
  /\ CallUpdateTrayTemperature(tray, WEATHER_URL)
  /\ last' = [op |-> "refreshNow"]
  /\ UNCHANGED << file, settingsVars, tray, timerVars, phase, applies,
                  rejections, nApply >>

\* mutant of BeforeQuit: the handle is dropped without clearInterval
BeforeQuitKeepsTimer ==
  /\ phase = "running"
  /\ MenuBuilt
  /\ updateInterval' = 0
  /\ tray' = FALSE
  /\ phase' = "quit"
  /\ last' = [op |-> "beforeQuit"]
  /\ UNCHANGED << file, settingsVars, timers, nTimer, weatherVars, apiErrors, applies,
                  fetches, rejections, nApply, nFetch, nErr >>

\* the menu item that calls app.quit(): the before-quit handler
BeforeQuit ==
  /\ phase = "running"
  /\ MenuBuilt
  /\ timers' = IF updateInterval # 0
               THEN {t \in timers : t.id # updateInterval} ELSE timers
  /\ updateInterval' = 0
  /\ tray' = FALSE
  /\ phase' = "quit"
  /\ last' = [op |-> "beforeQuit"]
  /\ UNCHANGED << file, settingsVars, nTimer, weatherVars, apiErrors, applies,
                  fetches, rejections, nApply, nFetch, nErr >>

\* ----------------------------------------------------------- validateSettings
MsgIntervalNumber  == "interval must be a number"
MsgIntervalMin     == "interval must be at least 1 second"
MsgLatitudeNumber  == "latitude must be a number"
MsgLatitudeRange   == "latitude must be between -90 and 90"
MsgLongitudeNumber == "longitude must be a number"
MsgLongitudeRange  == "longitude must be between -180 and 180"
MsgCityEmpty       == "city must not be an empty string"
MsgCountryEmpty    == "country must not be an empty string"
MsgLocation        == "either coordinates or city and country are required"

Present(x) == x # UndefNum /\ x # NullNum
PresentStr(s) == s # UndefStr /\ s # NullStr

\* mutant of When: the message is pushed twice
WhenTwice(cond, msg) == IF cond THEN <<msg, msg>> ELSE << >>

\* if (cond) errors.push(msg)
When(cond, msg) == IF cond THEN <<msg>> ELSE << >>

\* mutant of hasCoordinates: one coordinate is enough
hasCoordinatesEither(m) == Present(m.latitude) \/ Present(m.longitude)

\* hasCoordinates of validateSettings, for the merged settings m
hasCoordinates(m) == Present(m.latitude) /\ Present(m.longitude)

\* mutant of hasCityCountry: the names are not trimmed
hasCityCountryUntrimmed(m) == TruthyStr(m.city) /\ TruthyStr(m.country)

\* hasCityCountry of validateSettings, for the merged settings m
hasCityCountry(m) ==
  /\ TruthyStr(m.city) /\ TruthyStr(m.country)
  /\ Trim(m.city) # "" /\ Trim(m.country) # ""

\* the errors list validateSettings builds for newSettings over the settings cur
ValidationErrors(newSettings, cur) ==
  LET interval == newSettings.updateIntervalInSeconds
      lat == newSettings.latitude
      lon == newSettings.longitude
      mergedForValidation == Merge(cur, newSettings)
  IN  When(Present(interval) /\ interval = NaNNum, MsgIntervalNumber)
   \o When(Present(interval) /\ interval # NaNNum /\ LessThan(interval, 1), MsgIntervalMin)
   \o When(Present(lat) /\ lat = NaNNum, MsgLatitudeNumber)
   \o When(Present(lat) /\ lat # NaNNum /\ (lat < -90 \/ lat > 90), MsgLatitudeRange)
   \o When(Present(lon) /\ lon = NaNNum, MsgLongitudeNumber)
   \o When(Present(lon) /\ lon # NaNNum /\ (lon < -180 \/ lon > 180), MsgLongitudeRange)
   \o When(PresentStr(newSettings.city) /\ Trim(newSettings.city) = "", MsgCityEmpty)
   \o When(PresentStr(newSettings.country) /\ Trim(newSettings.country) = "", MsgCountryEmpty)
   \o When(~hasCoordinates(mergedForValidation) /\ ~hasCityCountry(mergedForValidation),
           MsgLocation)

\* -------------------------------------------------------------- applySettings
\* the rollback target applySettings records on entry
Snapshot(m) == m

\* the in-memory state after the merged settings are written to the globals
Staged(m, merged) ==
  [m EXCEPT !.CITY = merged.city,
            !.COUNTRY = merged.country,
            !.LATITUDE = Coalesce(merged.latitude, NullNum),
            !.LONGITUDE = Coalesce(merged.longitude, NullNum),
            !.UPDATE_INTERVAL_SECONDS = Coalesce(merged.updateIntervalInSeconds, 60),
            !.settings = merged]

\* mutants of RolledBack: rollbacks that leave a staged field behind
RolledBackKeepsPlace(cur, previous) ==
  [previous EXCEPT !.CITY = cur.CITY, !.COUNTRY = cur.COUNTRY]
RolledBackKeepsInterval(cur, previous) ==
  [previous EXCEPT !.UPDATE_INTERVAL_SECONDS = cur.UPDATE_INTERVAL_SECONDS]
RolledBackKeepsSettings(cur, previous) ==
  [previous EXCEPT !.settings = cur.settings]

\* the in-memory state after a rollback from the state cur to the snapshot
RolledBack(cur, previous) == previous

\* mutant of FileAfterSave: the write cannot fail
FileAfterSaveAlways(f, obj, w) == JsonStringify(obj)

\* mutant of FileAfterSave: nothing is written
FileAfterSaveSkipped(f, obj, w) == f

\* the file after saveSettings(obj) with write outcome w
FileAfterSave(f, obj, w) == IF w = "ok" THEN JsonStringify(obj) ELSE f

\* mutant of Rearm: the held timer is not cleared
RearmKeepsOld(seconds) ==
  /\ timers' = timers \cup {[id |-> nTimer + 1, seconds |-> seconds]}
  /\ updateInterval' = nTimer + 1
  /\ nTimer' = nTimer + 1

\* clearInterval of the held timer (if any), then setInterval at seconds
Rearm(seconds) ==
  /\ timers' = (IF updateInterval # 0
                THEN {t \in timers : t.id # updateInterval} ELSE timers)
               \cup {[id |-> nTimer + 1, seconds |-> seconds]}
  /\ updateInterval' = nTimer + 1
  /\ nTimer' = nTimer + 1

\* the tail of a successful applySettings: m is the memory it commits
ApplySucceeds(m) ==
  /\ SetMem(m)
  /\ Rearm(m.UPDATE_INTERVAL_SECONDS)
  /\ CallUpdateTrayTemperature(tray, m.WEATHER_URL)

\* history of an applySettings call: what it found on entry
Entry(id, cand, merged) ==
  [id |-> id, candidate |-> cand, merged |-> merged, pre |-> Mem, preFile |-> file,
   preTimer |-> updateInterval, overlapped |-> applies # {}]

\* history of its return; geo is the kind of the geocoding response, if any
Returned(result, entry, wBack, geo) ==
  [op |-> "applyReturned", result |-> result, id |-> entry.id,
   overlapped |-> entry.overlapped, wBack |-> wBack, geo |-> geo,
   reapplied |-> entry.candidate = entry.pre.settings,
   candidate |-> entry.candidate, preSettings |-> entry.pre.settings]

MarkOverlapped(as) == {[a EXCEPT !.entry.overlapped = TRUE] : a \in as}

\* the candidates the handler may get: the form also sends back the settings
\* it was opened with
CandidatesNow == Candidates \cup {settings}

\* the save-settings handler rejects the candidate
SettingsError ==
  /\ phase = "running"
  /\ MenuBuilt
  /\ \E cand \in CandidatesNow :
       /\ ValidationErrors(cand, settings) # << >>
       /\ last' = [op |-> "settingsError", candidate |-> cand,
                   errors |-> ValidationErrors(cand, settings)]
  /\ UNCHANGED << file, settingsVars, tray, timerVars, weatherVars, apiErrors, phase,
                  applies, fetches, rejections, nApply, nFetch, nErr >>

\* the save-settings handler accepts the candidate and calls applySettings,
\* which runs up to its first suspension or to its return
ApplySettings ==
  /\ phase = "running"
  /\ MenuBuilt
  /\ nApply < MaxApplies
  /\ FetchBudget
  /\ \E cand \in CandidatesNow, w \in WriteOutcomes, wBack \in WriteOutcomes :
       LET previous == Snapshot(Mem)
           merged   == Merge(settings, cand)
           staged   == Staged(Mem, merged)
           entry    == Entry(nApply + 1, cand, merged)
       IN
       /\ ValidationErrors(cand, settings) = << >>
       /\ nApply' = nApply + 1
       /\ IF w = "throws"
          THEN \* saveSettings returned false
               /\ wBack = "ok"
               /\ SetMem(RolledBack(staged, previous))
               /\ applies' = MarkOverlapped(applies)
               /\ last' = Returned("persistFailed", entry, wBack, "none")
               /\ UNCHANGED << file, timerVars, weatherVars, apiErrors, fetches,
                               nFetch, nErr >>
          ELSE IF ByName(staged.LATITUDE, staged.LONGITUDE, staged.CITY, staged.COUNTRY)
          THEN \* awaiting fetchCoordinatesByCity
               /\ wBack = "ok"
               /\ file' = FileAfterSave(file, merged, w)
               /\ SetMem(staged)
               /\ applies' = MarkOverlapped(applies)
                     \cup {[entry |-> entry, previous |-> previous,
                            city |-> staged.CITY, country |-> staged.COUNTRY]}
               /\ last' = [op |-> "applyAwaits", id |-> entry.id]
               /\ UNCHANGED << timerVars, weatherVars, apiErrors, fetches, nFetch, nErr >>
          ELSE IF ByCoordinates(staged.LATITUDE, staged.LONGITUDE)
          THEN /\ wBack = "ok"
               /\ file' = FileAfterSave(file, merged, w)
               /\ ApplySucceeds(InitLocationByCoordinates(staged))
               /\ applies' = MarkOverlapped(applies)
               /\ last' = Returned("ok", entry, wBack, "none")
          ELSE \* neither: initializeLocation records the error and returns false
               /\ apiErrors' = addApiError(apiErrors, nErr + 1, "Init",
                                           PlainError("no location"), NoUrl, NoInfo)
               /\ nErr' = nErr + 1
               /\ SetMem(RolledBack(staged, previous))
               /\ file' = FileAfterSave(FileAfterSave(file, merged, w),
                                        previous.settings, wBack)
               /\ applies' = MarkOverlapped(applies)
               /\ last' = Returned("resolutionFailed", entry, wBack, "none")
               /\ UNCHANGED << timerVars, weatherVars, fetches, nFetch >>
  /\ UNCHANGED << tray, phase, rejections >>

\* the geocoding request of an applySettings call completes
ApplyResolved ==
  \E a \in applies, resp \in GeoWithinBudget, wBack \in WriteOutcomes :
    /\ applies' = applies \ {a}
    /\ IF GeoFound(resp)
       THEN /\ wBack = "ok"
            /\ ApplySucceeds(InitLocationByName(Mem, PickLocation(resp.results, a.city, a.country)))
            /\ last' = Returned("ok", a.entry, wBack, resp.kind)
            /\ UNCHANGED file
       ELSE /\ apiErrors' = LogAfterGeocode(apiErrors, nErr + 1, resp, a.city, a.country)
            /\ nErr' = IF resp.kind = "ok" THEN nErr ELSE nErr + 1
            /\ SetMem(RolledBack(Mem, a.previous))
            /\ file' = FileAfterSave(file, a.previous.settings, wBack)
            /\ last' = Returned("resolutionFailed", a.entry, wBack, resp.kind)
            /\ UNCHANGED << timerVars, weatherVars, fetches, nFetch >>
    /\ UNCHANGED << tray, phase, rejections, nApply >>

\* ------------------------------------------------------------ specification
Next ==
  \/ LoadSettings
  \/ CreateTray
  \/ CreateTrayResolved
  \/ Tick
  \/ RefreshNow
  \/ FetchDone
  \/ SettingsError
  \/ ApplySettings
  \/ ApplyResolved
  \/ BeforeQuit

Spec == Init /\ [][Next]_vars

\* The application polling through a long outage: one update at a time, each
\* failing, MaxLogRun failures in all. The first MaxVaried of them fail in any
\* way, the later ones with HTTP 500.
OutageResponses ==
  IF nErr < MaxVaried
  THEN {resp \in WeatherResponses : ~WeatherData(resp).ok}
  ELSE {[kind |-> "http", status |-> 500]}

PollTick == fetches = {} /\ nErr < MaxLogRun /\ TimerFires

PollFails == FetchCompletes(OutageResponses)

NextLog ==
  \/ LoadSettings
  \/ CreateTray
  \/ CreateTrayResolved
  \/ PollTick
  \/ PollFails

SpecLog == Init /\ [][NextLog]_vars

\* validateSettings on its own: the settings a running application can hold
\* when the handler is called, and the candidates a caller may send
ValidationCurrents ==
  { defaultSettings,
    [EmptyObject EXCEPT !.latitude = 55, !.longitude = 37, !.updateIntervalInSeconds = 60],
    [defaultSettings EXCEPT !.city = " ", !.country = "Russia"],
    [city |-> "Moscow", country |-> "Russia", latitude |-> 55, longitude |-> 37,
     updateIntervalInSeconds |-> 30] }

ValidationCandidates ==
  [city : {UndefStr, NullStr, "", " ", "Moscow"},
   country : {UndefStr, NullStr, "Russia"},
   latitude : {UndefNum, NullNum, NaNNum, 55, 91},
   longitude : {UndefNum, NullNum, 37, -181},
   updateIntervalInSeconds : {UndefNum, NullNum, NaNNum, 0, 1, Tenths(5), Tenths(15), 60}]

InitValidate ==
  /\ settings \in ValidationCurrents
  /\ file = JsonStringify(settings)
  /\ CITY = settings.city /\ COUNTRY = settings.country
  /\ LATITUDE = Coalesce(settings.latitude, NullNum)
  /\ LONGITUDE = Coalesce(settings.longitude, NullNum)
  /\ UPDATE_INTERVAL_SECONDS = Coalesce(settings.updateIntervalInSeconds, 60)
  /\ WEATHER_URL = EmptyUrl
  /\ cityName = "" /\ countryName = ""
  /\ tray = FALSE
  /\ updateInterval = 0
  /\ timers = {}
  /\ lastUpdateTime = NullNum
  /\ shown = BaseShown
  /\ apiErrors = << >>
  /\ phase = "loaded"
  /\ applies = {}
  /\ fetches = {}
  /\ rejections = 0
  /\ nApply = 0 /\ nFetch = 0 /\ nTimer = 0 /\ nErr = 0
  /\ last = [op |-> "init"]

\* const validation = validateSettings(newSettings)
Validate ==
  /\ last.op = "init"
  /\ \E cand \in ValidationCandidates :
       last' = [op |-> "validated", candidate |-> cand,
                errors |-> ValidationErrors(cand, settings)]
  /\ UNCHANGED << file, settingsVars, tray, timerVars, weatherVars, apiErrors, phase,
                  applies, fetches, rejections, nApply, nFetch, nErr >>

SpecValidate == InitValidate /\ [][Validate]_vars

\* fetchCoordinatesByCity on its own: a successful response with up to
\* MaxResults candidates, for a requested city
PickCities == {"Moscow", "moscow", "Paris"}
PickCandidates ==
  { GeoOblast, GeoMoscow,
    [name |-> "MOSCOW", country |-> "United States", latitude |-> 46, longitude |-> -117],
    [name |-> UndefStr, country |-> UndefStr, latitude |-> 1, longitude |-> 2] }
PickResults == UNION {[1..n -> PickCandidates] : n \in 0..MaxResults}

\* fetchCoordinatesByCity returned null
NoLocation ==
  [latitude |-> NullNum, longitude |-> NullNum, cityName |-> NullStr, countryName |-> NullStr]

InitPick == Init /\ file = FileAbsent

\* const location = await fetchCoordinatesByCity(city, country), the response
\* being a success with the candidates results
Geocode ==
  /\ last.op = "init"
  /\ \E city \in PickCities, results \in PickResults :
       LET resp == [kind |-> "ok", results |-> results] IN
       last' = [op |-> "geocoded", city |-> city, results |-> results,
                found |-> GeoFound(resp),
                location |-> IF GeoFound(resp)
                             THEN PickLocation(results, city, "Russia")
                             ELSE NoLocation]
  /\ UNCHANGED << file, settingsVars, tray, timerVars, weatherVars, apiErrors, phase,
                  applies, fetches, rejections, nApply, nFetch, nErr >>

SpecPick == InitPick /\ [][Geocode]_vars

\* fetchWeatherData on its own: called with WEATHER_URL empty or set, the
\* request, when one is made, coming back with any of WeatherResponses
FetchUrls == {EmptyUrl, ForecastUrl(55, 37), ForecastUrl(10, 20)}

\* what the try block of fetchWeatherData ends with: a return, or a throw when
\* fetch() or res.json() rejects (the response kind "transport")
TryFetchWeather(resp) ==
  IF resp.kind = "transport"
  THEN [kind |-> "throw", error |-> ThrownError(resp)]
  ELSE [kind |-> "return", data |-> WeatherData(resp)]

\* mutant of CatchFetchWeather: the exception is thrown on to the caller
CatchFetchWeatherRethrows(outcome) == outcome

\* the catch block of fetchWeatherData: return null
CatchFetchWeather(outcome) ==
  IF outcome.kind = "throw"
  THEN [kind |-> "return", data |-> [ok |-> FALSE]]
  ELSE outcome

\* how a fetchWeatherData() call ends for the caller
fetchWeatherData(url, resp) ==
  IF url = EmptyUrl
  THEN [kind |-> "return", data |-> [ok |-> FALSE]]
  ELSE CatchFetchWeather(TryFetchWeather(resp))

InitFetch ==
  /\ settings \in ValidationCurrents
  /\ file = JsonStringify(settings)
  /\ CITY = settings.city /\ COUNTRY = settings.country
  /\ LATITUDE = Coalesce(settings.latitude, NullNum)
  /\ LONGITUDE = Coalesce(settings.longitude, NullNum)
  /\ UPDATE_INTERVAL_SECONDS = Coalesce(settings.updateIntervalInSeconds, 60)
  /\ WEATHER_URL \in FetchUrls
  /\ cityName = "" /\ countryName = ""
  /\ tray = FALSE
  /\ updateInterval = 0
  /\ timers = {}
  /\ lastUpdateTime = NullNum
  /\ shown = BaseShown
  /\ apiErrors = << >>
  /\ phase = "loaded"
  /\ applies = {}
  /\ fetches = {}
  /\ rejections = 0
  /\ nApply = 0 /\ nFetch = 0 /\ nTimer = 0 /\ nErr = 0
  /\ last = [op |-> "init"]

\* const weatherData = await fetchWeatherData()
FetchWeather ==
  /\ \E resp \in WeatherWithinBudget :
       /\ WEATHER_URL = EmptyUrl => FailureBudget
       /\ apiErrors' =
            IF WEATHER_URL = EmptyUrl
            THEN addApiError(apiErrors, nErr + 1, "Weather API",
                             PlainError("WEATHER_URL not initialised"), NoUrl, NoInfo)
            ELSE LogAfterWeather(apiErrors, nErr + 1, resp, WEATHER_URL)
       /\ nErr' = IF apiErrors' = apiErrors THEN nErr ELSE nErr + 1
       /\ last' = [op |-> "fetched", requested |-> WEATHER_URL # EmptyUrl,
                   resp |-> resp, outcome |-> fetchWeatherData(WEATHER_URL, resp)]
  /\ UNCHANGED << file, settingsVars, tray, timerVars, weatherVars, phase,
                  applies, fetches, rejections, nApply, nFetch >>

SpecFetch == InitFetch /\ [][FetchWeather]_vars

\* ===================================================================== claims
\* the applySettings call a, in flight, returns result in this step
Returns(a, result) ==
  last'.op = "applyReturned" /\ last'.id = a.entry.id /\ last'.result = result
\* an applySettings call that never suspended returns result in this step
ReturnsAtOnce(result) ==
  /\ last'.op = "applyReturned" /\ last'.result = result
  /\ \A a \in applies : a.entry.id # last'.id
\* a weather fetch completes in this step without a temperature
FetchFails == last'.op = "fetchDone" /\ ~WeatherData(last'.resp).ok

\* C1 as stated: after an applySettings call whose location resolution failed,
\* with no other call overlapping it, the in-memory settings, the derived
\* runtime fields and the persisted record all equal what they were on entry.
C1_RollbackRestoresEverything ==
  [][\A a \in applies :
       (Returns(a, "resolutionFailed") /\ ~a.entry.overlapped)
         => Mem' = a.entry.pre /\ file' = a.entry.preFile]_vars

\* C1 amended: after such a call the in-memory settings and the derived runtime
\* fields equal what they were on entry; the file holds the entry's in-memory
\* settings when the rollback write succeeded, and the rejected merged settings
\* when it failed.
C1_RollbackRestoresMemory ==
  [][\A a \in applies :
       (Returns(a, "resolutionFailed") /\ ~a.entry.overlapped)
         => /\ Mem' = a.entry.pre
            /\ file' = IF last'.wBack = "ok"
                       THEN JsonStringify(a.entry.pre.settings)
                       ELSE JsonStringify(a.entry.merged)]_vars

\* C1 witness: a call failed resolution with no other call overlapping it.
C1_Witness ==
  last.op = "applyReturned" /\ last.result = "resolutionFailed" /\ ~last.overlapped

\* C2 as stated: two applySettings calls never overlap: none is started while
\* another awaits location resolution, so none snapshots another's staged state.
C2_AppliesNeverOverlap ==
  /\ \A a \in applies : ~a.entry.overlapped
  /\ last.op = "applyReturned" => ~last.overlapped

\* C3 as stated: once applySettings has succeeded, the forecast URL, and the
\* fetch the call issued, are for the coordinates resolved for the merged
\* candidate: for a candidate with both coordinates, exactly those.
C3_AppliedLocationIsLive ==
  (last.op = "applyReturned" /\ last.result = "ok" /\ ~last.overlapped)
    => /\ WEATHER_URL = ForecastUrl(LATITUDE, LONGITUDE)
       /\ \A f \in fetches : f.id = nFetch => f.url = ForecastUrl(LATITUDE, LONGITUDE)
       /\ (Present(settings.latitude) /\ Present(settings.longitude))
            => LATITUDE = settings.latitude /\ LONGITUDE = settings.longitude

\* C4: the error history never holds more than MAX_ERRORS records, and it is
\* always the last MAX_ERRORS failures recorded (all of them while there are
\* fewer), oldest first.
C4_LogIsLastTwenty ==
  /\ Len(apiErrors) <= MAX_ERRORS
  /\ Len(apiErrors) = IF nErr < MAX_ERRORS THEN nErr ELSE MAX_ERRORS
  /\ \A i \in 1..Len(apiErrors) : apiErrors[i].timestamp = nErr - Len(apiErrors) + i

\* C4 witness: more failures than MAX_ERRORS have been recorded.
C4_Witness == nErr > MAX_ERRORS + 1 /\ Len(apiErrors) = MAX_ERRORS

\* the temperature the tray shows, the base icon counting as none
ShownTemp(sh) == IF sh.temp = UndefNum THEN NullNum ELSE sh.temp

\* C5 as stated: a failed weather fetch leaves the temperature and the
\* condition code on the tray and the time of the last success as they were.
C5_FailedFetchKeepsReadModel ==
  [][FetchFails
       => /\ lastUpdateTime' = lastUpdateTime
          /\ ShownTemp(shown') = ShownTemp(shown)
          /\ shown'.weathercode = shown.weathercode]_vars

\* C5 amended: a failed weather fetch leaves the time of the last success as it
\* was; the tray, while it exists, then shows no temperature (N/A) and the
\* condition code 0, whatever it showed before.
C5_FailedFetchKeepsTimeOnly ==
  [][FetchFails
       => /\ lastUpdateTime' = lastUpdateTime
          /\ tray => shown' = [temp |-> NullNum, weathercode |-> 0,
                               time |-> lastUpdateTime]]_vars

\* C5 witness: a fetch failed after an earlier one had succeeded.
C5_Witness ==
  /\ last.op = "fetchDone" /\ ~WeatherData(last.resp).ok
  /\ lastUpdateTime # NullNum /\ shown.temp = NullNum

\* the history gained exactly the record rec
Gained(rec) ==
  /\ Len(apiErrors') = Len(apiErrors) + 1
  /\ SubSeq(apiErrors', 1, Len(apiErrors)) = apiErrors
  /\ apiErrors'[Len(apiErrors')] = rec

\* C6 as stated: every failed forecast or geocoding request adds exactly one
\* record to the error history, with the label of the operation, the URL that
\* was requested and the HTTP status or transport code there is.
C6_OneRecordPerFailedCall ==
  [][/\ \A f \in fetches :
          (FetchFails /\ fetches' = fetches \ {f})
            => \E rec \in {apiErrors'[Len(apiErrors')]} :
                 /\ Gained(rec)
                 /\ rec.api = "Weather API"
                 /\ rec.url = f.url
                 /\ last'.resp.kind = "http" => rec.statusCode = last'.resp.status
     /\ \A a \in applies :
          (Returns(a, "resolutionFailed") /\ last'.geo \in {"http", "transport"})
            => \E rec \in {apiErrors'[Len(apiErrors')]} :
                 /\ Gained(rec)
                 /\ rec.api = "Geocoding API"
                 /\ rec.url = GeocodeUrl(a.city, a.country)]_vars

\* C7: a failing applySettings call neither clears nor arms a timer in any of
\* its steps, and on its return UPDATE_INTERVAL_SECONDS is what it was on entry.
C7_FailedApplyLeavesTimer ==
  [][/\ (last'.op = "applyAwaits" \/ (last'.op = "applyReturned" /\ last'.result # "ok"))
          => UNCHANGED << updateInterval, timers >>
     /\ ReturnsAtOnce("persistFailed")
          => UPDATE_INTERVAL_SECONDS' = UPDATE_INTERVAL_SECONDS
     /\ \A a \in applies :
          Returns(a, "resolutionFailed")
            => UPDATE_INTERVAL_SECONDS' = a.entry.pre.UPDATE_INTERVAL_SECONDS]_vars

\* C7 witness: a call that proposed another interval failed resolution while a
\* timer of 30 seconds was armed.
C7_Witness ==
  /\ last.op = "applyReturned" /\ last.result = "resolutionFailed"
  /\ UPDATE_INTERVAL_SECONDS = 30
  /\ \E t \in timers : t.id = updateInterval /\ t.seconds = 30

\* C8 as stated: a successful applySettings call that leaves the interval as it
\* was leaves the armed timer as it was.
C8_RearmOnlyOnChange ==
  [][/\ (ReturnsAtOnce("ok") /\ UPDATE_INTERVAL_SECONDS' = UPDATE_INTERVAL_SECONDS)
          => UNCHANGED << updateInterval, timers >>
     /\ \A a \in applies :
          (Returns(a, "ok")
             /\ UPDATE_INTERVAL_SECONDS' = a.entry.pre.UPDATE_INTERVAL_SECONDS)
            => UNCHANGED << updateInterval, timers >>]_vars

\* C8 amended: every successful applySettings call clears the timer the module
\* holds and arms a new one at the committed interval, whether or not the
\* interval changed.
C8_RearmAlways ==
  [][(last'.op = "applyReturned" /\ last'.result = "ok")
       => /\ updateInterval' # 0 /\ updateInterval' # updateInterval
          /\ timers' = {t \in timers : t.id # updateInterval}
                         \cup {[id |-> updateInterval',
                                seconds |-> UPDATE_INTERVAL_SECONDS']}
          /\ \A t \in timers : t.id # updateInterval']_vars

\* C8 witness: the first call succeeded and left the interval at 60 seconds.
C8_Witness ==
  /\ last.op = "applyReturned" /\ last.result = "ok" /\ nApply = 1
  /\ UPDATE_INTERVAL_SECONDS = 60 /\ updateInterval = 2

\* C9: after loadSettings has run with no settings file, the settings are the
\* defaults and the file holds exactly the default record.
C9_LoadWithoutFile ==
  (last.op = "load" /\ last.from = "absent")
    => /\ settings = defaultSettings
       /\ settings = [city |-> "New York City", country |-> "United States",
                      latitude |-> NullNum, longitude |-> NullNum,
                      updateIntervalInSeconds |-> 60]
       /\ file = JsonStringify(defaultSettings)

\* C9 witness: loadSettings has run with no settings file.
C9_Witness == last.op = "load" /\ last.from = "absent"

\* C10 as stated: after loadSettings has run on an unparseable file, the
\* settings are the defaults and the file holds the default record.
C10_CorruptLoadWritesDefaults ==
  (last.op = "load" /\ last.from = "corrupt")
    => settings = defaultSettings /\ file = JsonStringify(defaultSettings)

\* C10 amended: loadSettings on an unparseable file never throws and returns
\* the defaults, and it leaves the file as it found it.
C10_CorruptLoadKeepsFile ==
  /\ (last.op = "load" /\ last.from = "corrupt")
       => settings = defaultSettings /\ file = FileCorrupt
  /\ last.op = "loadThrew" => file # FileCorrupt

\* C10 witness: loadSettings has run on an unparseable file.
C10_Witness == last.op = "load" /\ last.from = "corrupt"

\* the messages of an errors list
Messages(errors) == {errors[i] : i \in 1..Len(errors)}
\* a place or region name that is set and not blank
NonBlank(s) == s \notin {UndefStr, NullStr, "", " "}
\* the settings m name a location: both coordinates, or both place and region
NamesLocation(m) ==
  \/ Present(m.latitude) /\ Present(m.longitude)
  \/ NonBlank(m.city) /\ NonBlank(m.country)

\* C11: validateSettings rejects, with the message about the location, every
\* candidate whose merge over the current settings has neither both coordinates
\* nor both a place and a region that are non-empty after trimming, whatever
\* the other messages are.
C11_MergedLocationRequired ==
  last.op = "validated"
    => (~NamesLocation(Merge(settings, last.candidate))
          => last.errors # << >> /\ MsgLocation \in Messages(last.errors))

\* C11 witness: the form with all four location fields empty, every field valid
\* by itself, was rejected with the message about the location alone.
C11_Witness ==
  /\ last.op = "validated"
  /\ last.candidate = [city |-> NullStr, country |-> NullStr, latitude |-> NullNum,
                       longitude |-> NullNum, updateIntervalInSeconds |-> 60]
  /\ last.errors = <<MsgLocation>>

\* C13 as stated: every candidate interval that is present and is not an
\* integer of at least 1 (below 1, not a number, or not an integer) gets a
\* validation error about the interval.
C13_IntervalIsIntegerAtLeastOne ==
  last.op = "validated"
    => LET interval == last.candidate.updateIntervalInSeconds IN
       (Present(interval)
          /\ (interval = NaNNum \/ interval >= FractionBase \/ interval < 1))
         => Messages(last.errors) \cap {MsgIntervalNumber, MsgIntervalMin} # {}

\* C12: a candidate rejected by validation changes nothing: the file, the
\* in-memory settings and runtime fields, the timer and the error history are
\* as before and no request is started; and a candidate that sets nothing but
\* updateIntervalInSeconds = 0 over settings that name a location is rejected
\* with exactly one message, the one about the interval.
C12_RejectionChangesNothing ==
  [][last'.op = "settingsError"
       => /\ UNCHANGED << file, settingsVars, updateInterval, timers, apiErrors,
                          fetches, applies, weatherVars >>
          /\ (last'.candidate = [EmptyObject EXCEPT !.updateIntervalInSeconds = 0]
                /\ NamesLocation(settings))
               => last'.errors = <<MsgIntervalMin>>]_vars

\* C12 witness: the candidate with nothing but the interval 0 was rejected.
C12_Witness ==
  /\ last.op = "settingsError"
  /\ last.candidate = [EmptyObject EXCEPT !.updateIntervalInSeconds = 0]
  /\ Len(last.errors) = 1

\* C20: when the write of the merged settings fails, applySettings returns
\* failure at once with the in-memory settings and every runtime field as they
\* were on entry, the file as it was, no location resolution started, no
\* request issued and nothing recorded.
C20_PersistFailureRestores ==
  [][ReturnsAtOnce("persistFailed")
       => /\ Mem' = Mem
          /\ file' = file
          /\ {a.entry.id : a \in applies'} = {a.entry.id : a \in applies}
          /\ UNCHANGED << fetches, nFetch, apiErrors, updateInterval, timers >>]_vars

\* C20 witness: a call whose write failed has returned.
C20_Witness == last.op = "applyReturned" /\ last.result = "persistFailed"

\* startup has completed: the trays and the timer were created
Started == phase = "running" \/ (phase = "quit" /\ nTimer > 0)

IntegerAtLeastOne(x) == x >= 1 /\ x < FractionBase

\* C15 as stated: from load onwards UPDATE_INTERVAL_SECONDS, and the period of
\* every armed timer, is an integer of at least 1, whatever record the
\* settings were read from.
C15_LiveIntervalAtLeastOne ==
  phase \in {"loaded", "resolving", "running", "quit"}
    => /\ IntegerAtLeastOne(UPDATE_INTERVAL_SECONDS)
       /\ \A t \in timers : IntegerAtLeastOne(t.seconds)

\* C16 as stated: once the before-quit handler has run no timer is armed and
\* the module holds none, in every later state, whatever was in flight when it
\* ran; and no timer fires any more.
C16_StoppedStaysStopped ==
  /\ [](phase = "quit" => (updateInterval = 0 /\ timers = {}))
  /\ [][phase = "quit" => last'.op # "tick"]_vars

\* C17 as stated: an updateTrayTemperature call whose fetch completes after
\* the before-quit handler has run finishes normally: no call ever ends in an
\* exception (a rejected promise).
C17_LateFetchFinishesNormally == rejections = 0

\* the process is over
Ended == phase \in {"quit", "crashed"}

C19_ReapplyChangesNothing ==
  [][/\ (ReturnsAtOnce("ok") \/ ReturnsAtOnce("persistFailed")
           \/ ReturnsAtOnce("resolutionFailed")) /\ last'.reapplied
          => /\ last'.result = "ok"
             /\ file' = file
             /\ UNCHANGED << apiErrors, weatherVars >>
     /\ \A a \in applies :
          (last'.op = "applyReturned" /\ last'.id = a.entry.id /\ last'.reapplied)
            => /\ last'.result = "ok"
               /\ file' = a.entry.preFile
               /\ UNCHANGED << apiErrors, weatherVars >>]_vars

\* the refresh a successful applySettings triggers: one fetch while the tray exists
OneRefresh ==
  IF tray
  THEN /\ fetches' = fetches \cup {[id |-> nFetch + 1, url |-> WEATHER_URL']}
       /\ nFetch' = nFetch + 1
  ELSE UNCHANGED << fetches, nFetch >>

\* C19 amended: such a call succeeds only if the write succeeds and, for
\* settings by name, the geocoding request it repeats returns a result. Its
\* write leaves the file holding the current settings, rewritten; its
\* successful return leaves the settings, the error history and the tray as
\* they are and issues exactly one fetch while the tray exists; when it fails
\* the settings are those of its snapshot.
C19_ReapplyRewritesTheFile ==
  [][/\ (ReturnsAtOnce("ok") /\ last'.reapplied)
          => /\ settings' = settings /\ file' = JsonStringify(settings)
             /\ UNCHANGED << apiErrors, weatherVars >> /\ OneRefresh
     /\ (ReturnsAtOnce("persistFailed") /\ last'.reapplied)
          => settings' = settings /\ file' = file
     /\ \A a \in applies' :
          (last'.op = "applyAwaits" /\ last'.id = a.entry.id
             /\ a.entry.candidate = a.entry.pre.settings)
            => settings' = settings /\ file' = JsonStringify(settings)
     /\ \A a \in applies :
          /\ (Returns(a, "ok") /\ last'.reapplied)
               => /\ settings' = settings /\ file' = file
                  /\ UNCHANGED << apiErrors, weatherVars >> /\ OneRefresh
          /\ (Returns(a, "resolutionFailed") /\ last'.reapplied)
               => settings' = a.entry.pre.settings]_vars

\* C19 witness: a call whose candidate equalled the current settings succeeded.
C19_Witness ==
  last.op = "applyReturned" /\ last.reapplied /\ last.result = "ok" /\ ~last.overlapped

\* the runtime fields name a place to look up: a coordinate is missing and
\* city and country are set
LooksUpByName ==
  /\ LATITUDE' = NullNum \/ LONGITUDE' = NullNum
  /\ TruthyStr(CITY') /\ TruthyStr(COUNTRY')
\* no geocoding request is started in this step
NoGeocodingStarted ==
  phase' # "resolving" /\ {a.entry.id : a \in applies'} \subseteq {a.entry.id : a \in applies}

C22_ResolvedLocationReplacedWhole ==
  (last.op = "applyReturned" /\ last.result = "ok" /\ last.geo = "none"
     /\ ~last.overlapped)
    => cityName = "" /\ countryName = ""

\* a lookup by name has just succeeded in this step
ResolvedByName ==
  \/ last'.op = "createTrayResolved" /\ last'.found
  \/ last'.op = "applyReturned" /\ last'.result = "ok" /\ last'.geo = "ok"

\* C23: a successful lookup by name leaves the settings record as it is, in
\* memory and in the file: the coordinates found go to LATITUDE and LONGITUDE
\* only, and settings.latitude and settings.longitude stay unset.
C23_ResolutionKeepsTheSpec ==
  [][ResolvedByName
       => /\ settings' = settings /\ file' = file
          /\ LATITUDE' # NullNum /\ LONGITUDE' # NullNum
          /\ ~(Present(settings.latitude) /\ Present(settings.longitude))
               => ~(Present(settings'.latitude) /\ Present(settings'.longitude))]_vars

\* C23 witness: an apply by name succeeded; the coordinates are resolved and
\* the settings record, in memory and in the file, still has none.
C23_Witness ==
  /\ last.op = "applyReturned" /\ last.result = "ok" /\ last.geo = "ok"
  /\ LATITUDE # NullNum /\ LONGITUDE # NullNum
  /\ settings.latitude = NullNum /\ settings.longitude = NullNum
  /\ file = JsonStringify(settings)

\* C24 as stated: while an applySettings call is in flight every fetch that is
\* issued requests the URL that was live when the call started, and a call
\* that fails leaves WEATHER_URL as it is.
C24_PendingApplyKeepsTarget ==
  [][/\ \A a \in applies :
          /\ \A f \in fetches' \ fetches :
               last'.op \in {"tick", "refreshNow"} => f.url = a.entry.pre.WEATHER_URL
          /\ Returns(a, "resolutionFailed") => WEATHER_URL' = WEATHER_URL
     /\ ReturnsAtOnce("persistFailed") => WEATHER_URL' = WEATHER_URL]_vars

\* the positions of the candidates whose name equals city, case ignored
Matches(results, city) ==
  {i \in 1..Len(results) :
     TruthyStr(results[i].name) /\ ToLowerCase(results[i].name) = ToLowerCase(city)}
\* the least member of a non-empty set of positions
Least(S) == CHOOSE i \in S : \A j \in S : i <= j

\* C25: for a non-empty list of candidates fetchCoordinatesByCity returns the
\* first candidate whose name equals the requested city case-insensitively,
\* and the first candidate of the list when none does; for an empty list it
\* returns no location.
C25_ExactMatchElseFirst ==
  last.op = "geocoded"
    => IF Len(last.results) = 0
       THEN ~last.found /\ last.location = NoLocation
       ELSE LET matches == Matches(last.results, last.city)
                chosen  == last.results[IF matches # {} THEN Least(matches) ELSE 1]
            IN /\ last.found
               /\ last.location.latitude = chosen.latitude
               /\ last.location.longitude = chosen.longitude
               /\ last.location.cityName =
                    IF TruthyStr(chosen.name) THEN chosen.name ELSE last.city
               /\ last.location.countryName =
                    IF TruthyStr(chosen.country) THEN chosen.country ELSE "Russia"

\* C25 witness: the match was neither the first candidate nor spelled as asked.
C25_Witness ==
  /\ last.op = "geocoded" /\ last.city = "moscow"
  /\ Len(last.results) = 3 /\ last.results[1] = GeoOblast
  /\ last.results[2].name = UndefStr /\ last.results[3].name = "MOSCOW"
  /\ last.location.latitude = 46

\* the response has a success status and a numeric temperature
HasTemperature(resp) == resp.kind = "ok" /\ resp.temperature # UndefNum

\* C26: a fetch succeeds exactly when the response has a success status and a
\* numeric temperature. A success records nothing, sets the time of the last
\* success and shows the temperature with the response's weathercode, or with
\* 0 when the response has none; any other response records one error and
\* leaves the time as it was.
C26_TemperatureDecidesSuccess ==
  [][last'.op = "fetchDone"
       => IF HasTemperature(last'.resp)
          THEN /\ apiErrors' = apiErrors
               /\ lastUpdateTime' # lastUpdateTime /\ lastUpdateTime' # NullNum
               /\ tray => /\ shown'.temp = last'.resp.temperature
                          /\ shown'.weathercode =
                               IF last'.resp.weathercode = UndefNum
                               THEN 0 ELSE last'.resp.weathercode
          ELSE /\ Len(apiErrors') = Len(apiErrors) + 1
               /\ apiErrors'[Len(apiErrors')].api = "Weather API"
               /\ lastUpdateTime' = lastUpdateTime]_vars

\* C26 witness: a response with a temperature and no weathercode was taken as
\* a success with the code 0.
C26_Witness ==
  /\ last.op = "fetchDone" /\ last.resp.kind = "ok"
  /\ last.resp.temperature = 7 /\ last.resp.weathercode = UndefNum
  /\ shown.temp = 7 /\ shown.weathercode = 0 /\ apiErrors = << >>

\* the number of entries of an errors list that are among the messages msgs
Count(errors, msgs) == Cardinality({i \in 1..Len(errors) : errors[i] \in msgs})
\* 1 when the rule is violated, 0 when it is kept
OneIf(violated) == IF violated THEN 1 ELSE 0

\* C27 as stated: validateSettings collects the errors of all rules: for every
\* candidate the list has exactly one message for each violated rule and none
\* for a rule that is kept, the rules being: the interval, if present, is an
\* integer of at least 1; the latitude, if present, is a number in [-90, 90];
\* the longitude, if present, is a number in [-180, 180]; the place and the
\* region, if present, are not blank; the merged settings name a location.
C27_OneMessagePerViolatedRule ==
  last.op = "validated"
    => LET c == last.candidate
           e == last.errors
       IN  /\ Count(e, {MsgIntervalNumber, MsgIntervalMin})
                = OneIf(Present(c.updateIntervalInSeconds)
                          /\ ~IntegerAtLeastOne(c.updateIntervalInSeconds))
           /\ Count(e, {MsgLatitudeNumber, MsgLatitudeRange})
                = OneIf(Present(c.latitude)
                          /\ (c.latitude = NaNNum \/ c.latitude < -90 \/ c.latitude > 90))
           /\ Count(e, {MsgLongitudeNumber, MsgLongitudeRange})
                = OneIf(Present(c.longitude)
                          /\ (c.longitude = NaNNum \/ c.longitude < -180 \/ c.longitude > 180))
           /\ Count(e, {MsgCityEmpty}) = OneIf(c.city \in {"", " "})
           /\ Count(e, {MsgCountryEmpty}) = OneIf(c.country \in {"", " "})
           /\ Count(e, {MsgLocation}) = OneIf(~NamesLocation(Merge(settings, c)))

\* the field f of the record m is as a successful apply of the candidate c
\* over the settings pre leaves it: c's value if c has the field, else pre's
FieldApplied(m, f, c, pre, absent) == m[f] = IF c[f] = absent THEN pre[f] ELSE c[f]
\* every field of the record m is so
AllFieldsApplied(m, c, pre) ==
  /\ FieldApplied(m, "city", c, pre, UndefStr)
  /\ FieldApplied(m, "country", c, pre, UndefStr)
  /\ FieldApplied(m, "latitude", c, pre, UndefNum)
  /\ FieldApplied(m, "longitude", c, pre, UndefNum)
  /\ FieldApplied(m, "updateIntervalInSeconds", c, pre, UndefNum)

\* C28 as stated: when an apply returns success, every settings field present
\* in its candidate has the candidate's value and every field absent from the
\* candidate has the value it had when the apply began, in the in-memory
\* settings and in the persisted record.
C28_SuccessfulApplyIsTheMerge ==
  (last.op = "applyReturned" /\ last.result = "ok")
    => /\ AllFieldsApplied(settings, last.candidate, last.preSettings)
       /\ file.kind = "json"
       /\ AllFieldsApplied(file.value, last.candidate, last.preSettings)

\* the step issues exactly one weather request, for the location in force
IssuesOneFetch ==
  /\ nFetch' = nFetch + 1
  /\ fetches' = fetches \cup {[id |-> nFetch + 1, url |-> WEATHER_URL']}
  /\ WEATHER_URL' # EmptyUrl

\* C29: no timer is armed before startup has resolved the location; the step
\* of createTray that arms the first timer follows a successful resolution
\* (by coordinates, or a geocoding response with a result), arms exactly one
\* timer with the period UPDATE_INTERVAL_SECONDS and issues exactly one weather
\* request; and while the application runs exactly one timer is armed, the one
\* the module holds, and each firing of it issues exactly one weather request.
C29_SchedulerStartsAfterResolution ==
  /\ [](phase \in {"boot", "loaded", "resolving", "crashed"}
          => timers = {} /\ updateInterval = 0 /\ fetches = {} /\ nFetch = 0)
  /\ [][(phase # "running" /\ phase' = "running")
          => /\ \/ last'.op = "createTray" /\ last'.branch = "byCoordinates"
                \/ last'.op = "createTrayResolved" /\ last'.found
             /\ timers' = {[id |-> updateInterval', seconds |-> UPDATE_INTERVAL_SECONDS']}
             /\ IssuesOneFetch]_vars
  /\ [](phase = "running"
          => Cardinality(timers) = 1 /\ \A t \in timers : t.id = updateInterval)
  /\ [][(phase = "running" /\ last'.op = "tick")
          => IssuesOneFetch /\ WEATHER_URL' = WEATHER_URL /\ timers' = timers]_vars

\* C29 witness: after a startup by name that issued the first request, a
\* firing of the timer has issued the second.
C29_Witness ==
  /\ phase = "running" /\ last.op = "tick"
  /\ cityName # "" /\ nFetch = 2 /\ nTimer = 1

\* an applySettings call returns success in this step
ReturnsOk == ReturnsAtOnce("ok") \/ \E a \in applies : Returns(a, "ok")

\* C30 as stated: every apply that returns success issues exactly one weather
\* request, in the step that re-arms the timer: the held timer is replaced by
\* one new timer with the period UPDATE_INTERVAL_SECONDS, and the re-arming
\* adds no request of its own.
C30_SuccessfulApplyFetchesOnce ==
  [][ReturnsOk
       => /\ IssuesOneFetch
          /\ updateInterval' = nTimer + 1
          /\ timers' \ timers = {[id |-> nTimer + 1, seconds |-> UPDATE_INTERVAL_SECONDS']}
          /\ timers \ timers' = {t \in timers : t.id = updateInterval}]_vars

\* the step appends exactly one record, of the service api, to the end of the
\* error history, stamped at this step, and keeps the records before it
AppendsOneRecord(api) ==
  /\ Len(apiErrors') = Len(apiErrors) + 1
  /\ SubSeq(apiErrors', 1, Len(apiErrors)) = apiErrors
  /\ apiErrors'[Len(apiErrors')].api = api
  /\ apiErrors'[Len(apiErrors')].timestamp = nErr + 1
  /\ nErr' = nErr + 1
\* a geocoding request completes in this step with the response kind geo
GeocodeDone(geo) ==
  \/ last'.op = "createTrayResolved" /\ last'.geo = geo
  \/ last'.op = "applyReturned" /\ last'.geo = geo

\* C31: with any number of requests in flight, the failure of a request is
\* recorded in the step in which that request completes, as exactly one record
\* at the end of the error history, whichever request was issued first; a
\* request that completes with success records nothing; the records already
\* there stay, in their order (the history being below its capacity), so that
\* the history lists the failures in the order of completion, none twice.
C31_FailuresInCompletionOrder ==
  /\ [][/\ FetchFails => AppendsOneRecord("Weather API")
        /\ (last'.op = "fetchDone" /\ WeatherData(last'.resp).ok)
             => apiErrors' = apiErrors
        /\ (GeocodeDone("http") \/ GeocodeDone("transport"))
             => AppendsOneRecord("Geocoding API")
        /\ GeocodeDone("ok") => apiErrors' = apiErrors
        /\ \/ apiErrors' = apiErrors
           \/ /\ Len(apiErrors') = Len(apiErrors) + 1
              /\ SubSeq(apiErrors', 1, Len(apiErrors)) = apiErrors]_vars
  /\ [](\A i, j \in 1..Len(apiErrors) :
          i < j => apiErrors[i].timestamp < apiErrors[j].timestamp)

\* C31 witness: two forecast requests were in flight at once; the second to be
\* issued failed first (a transport failure), the first to be issued failed
\* last (HTTP 500), and the history lists them in that order.
C31_Witness ==
  /\ last.op = "fetchDone" /\ last.fetch = 1 /\ last.resp.kind = "http"
  /\ nFetch = 2 /\ fetches = {} /\ applies = {}
  /\ Len(apiErrors) = 2
  /\ apiErrors[1].api = "Weather API"
  /\ apiErrors[1].error = "fetch failed" /\ apiErrors[1].timestamp = 1
  /\ apiErrors[2].error = "HTTP error" /\ apiErrors[2].timestamp = 2

\* C32: a fetchWeatherData call always ends with a return, never with an
\* exception: with a success status and a temperature it returns the data and
\* records nothing; with WEATHER_URL empty, a failure status, a rejected fetch
\* or body, or a body without a temperature it returns null and appends
\* exactly one Weather API record to the error history.
C32_FetchNeverThrows ==
  [][last'.op = "fetched"
       => LET got == last'.requested /\ HasTemperature(last'.resp) IN
          /\ last'.outcome.kind = "return"
          /\ last'.outcome.data.ok = got
          /\ IF got THEN apiErrors' = apiErrors /\ nErr' = nErr
                    ELSE AppendsOneRecord("Weather API")]_vars

\* C32 witness: a call with WEATHER_URL set whose fetch was rejected has
\* returned null, the rejection being the one record of the history.
C32_Witness ==
  /\ last.op = "fetched" /\ last.outcome = [kind |-> "return", data |-> [ok |-> FALSE]]
  /\ last.requested /\ last.resp.kind = "transport"
  /\ Len(apiErrors) = 1 /\ apiErrors[1].error = "fetch failed"

\* C33 as stated: at the moment an applySettings call returns success, the
\* in-memory settings are the candidate of that call merged over the settings
\* the call found, and the file holds exactly that record, whatever other
\* applies, ticks and fetches ran during the call.
C33_SuccessCommitsMergedCandidate ==
  (last.op = "applyReturned" /\ last.result = "ok")
    => LET merged == Merge(last.preSettings, last.candidate) IN
       settings = merged /\ file = JsonStringify(merged)

\* the persisted record is structurally equal to the in-memory settings
InSync == file = JsonStringify(settings)

\* C34 as stated: whenever the settings are loaded and no apply is in flight,
\* the in-memory settings are structurally equal to the persisted record.
C34_MemoryEqualsPersisted ==
  (phase \in {"loaded", "resolving", "running", "quit"} /\ applies = {}) => InSync

\* C34 amended: the settings equal the persisted record after load from a
\* missing record and after every step of an apply whose storage write
\* succeeded: the staging write (the apply then awaits or returns success at
\* once) and the rollback write of a failed resolution. A successful return
\* after the await and a persist failure change neither of them; a failed
\* rollback write leaves the file as the staging write left it while the
\* memory gets the snapshot; load leaves an existing record as it found it;
\* no other step touches either.
C34_InSyncAfterEachSuccessfulWrite ==
  /\ [](last.op = "load"
          => IF last.from = "absent" THEN InSync
             ELSE file \in InitialFiles /\ settings = LoadedSettings(file))
  /\ [][/\ (last'.op = "applyAwaits" \/ ReturnsAtOnce("ok")) => InSync'
        /\ (last'.op = "applyReturned" /\ last'.result = "resolutionFailed")
             => /\ settings' = last'.preSettings
                /\ last'.wBack = "ok" => InSync'
                /\ (last'.wBack = "throws" /\ \E a \in applies : Returns(a, "resolutionFailed"))
                     => file' = file
        /\ ((\E a \in applies : Returns(a, "ok")) \/ ReturnsAtOnce("persistFailed"))
             => UNCHANGED << settings, file >>
        /\ last'.op \notin {"load", "loadThrew", "applyAwaits", "applyReturned"}
             => UNCHANGED << settings, file >>]_vars

\* C34 witness: an apply whose resolution failed has rolled back and rewritten
\* the file, no apply is in flight, and the settings equal the record.
C34_Witness ==
  /\ last.op = "applyReturned" /\ last.result = "resolutionFailed" /\ last.wBack = "ok"
  /\ last.geo = "http" /\ applies = {} /\ InSync

\* C35: at most one interval timer is armed at any time, and an armed timer
\* is the one whose handle the module holds in updateInterval: every step that
\* arms a timer leaves the timers armed before it cancelled, whatever startup,
\* applies (overlapping ones included) and before-quit came before.
C35_AtMostOneTimer ==
  /\ [](Cardinality(timers) <= 1 /\ \A t \in timers : t.id = updateInterval)
  /\ [][nTimer' # nTimer
          => /\ nTimer' = nTimer + 1
             /\ timers' = {[id |-> nTimer + 1, seconds |-> UPDATE_INTERVAL_SECONDS']}]_vars

\* C35 witness: two applies that overlapped have both succeeded after the
\* startup armed the first timer; the third timer is the only one armed.
C35_Witness ==
  /\ nTimer = 3 /\ Cardinality(timers) = 1 /\ updateInterval = 3
  /\ last.op = "applyReturned" /\ last.result = "ok" /\ last.overlapped

\* C36: for every candidate validateSettings accepts over the current
\* settings, initializeLocation run on the globals applySettings stages from
\* the merged settings takes the by-name branch or the by-coordinates branch,
\* never the one that reports that no location is given.
C36_AcceptedCandidateHasABranch ==
  (last.op = "validated" /\ last.errors = << >>)
    => LET staged == Staged(Mem, Merge(settings, last.candidate)) IN
       \/ ByName(staged.LATITUDE, staged.LONGITUDE, staged.CITY, staged.COUNTRY)
       \/ ByCoordinates(staged.LATITUDE, staged.LONGITUDE)

\* C36 witness: a candidate that clears the longitude of settings holding both
\* coordinates and both names was accepted; it is resolved by name.
C36_Witness ==
  /\ last.op = "validated" /\ last.errors = << >>
  /\ Present(settings.latitude) /\ Present(settings.longitude)
  /\ last.candidate.longitude = NullNum /\ last.candidate.latitude = UndefNum
  /\ last.candidate.city = UndefStr /\ last.candidate.country = UndefStr
  /\ LET staged == Staged(Mem, Merge(settings, last.candidate)) IN
     /\ ByName(staged.LATITUDE, staged.LONGITUDE, staged.CITY, staged.COUNTRY)
     /\ ~ByCoordinates(staged.LATITUDE, staged.LONGITUDE)

\* C37: whenever a timer is armed WEATHER_URL is set, so that every firing of
\* a timer that finds the tray issues a forecast request for WEATHER_URL and
\* none records that the URL is not initialised; this holds through startup,
\* applies and their rollbacks.
C37_ArmedTimerHasUrl ==
  /\ [](timers # {} => WEATHER_URL # EmptyUrl)
  /\ [][last'.op = "tick"
          => /\ WEATHER_URL # EmptyUrl
             /\ apiErrors' = apiErrors
             /\ tray => fetches' = fetches \cup {[id |-> nFetch + 1, url |-> WEATHER_URL]}]_vars

\* C37 witness: the timer fires after an apply whose geocoding request failed
\* was rolled back, and issues a request for the URL built at startup.
C37_Witness ==
  /\ last.op = "tick" /\ tray /\ nApply > 0 /\ applies = {}
  /\ \E i \in 1..Len(apiErrors) : apiErrors[i].api = "Geocoding API"
  /\ WEATHER_URL = ForecastUrl(55, 37)
  /\ \E f \in fetches : f.id = nFetch /\ f.url = WEATHER_URL

====
